---- MODULE Spec2Model ----
(***************************************************************************)
(* Streaming chat orchestration of the chatbot backend:                    *)
(* ChatService.process_chat_stream driving LLMClient.chat_stream over the  *)
(* sessions/messages store, with optional retrieval augmentation.          *)
(*                                                                         *)
(* Text is a sequence of characters, so that concatenation is \o.          *)
(* Similarity scores are scaled by 10 (0.7 is 7).                          *)
(***************************************************************************)
EXTENDS Integers, Sequences, FiniteSets, TLC

\* ---------------------------------------------------------------- bounds
MaxLines == 3      \* lines one backend response delivers before it ends
MaxHistory == 12   \* messages in the store before the request under study
MaxBrief == 2      \* lines of a short backend response
MaxStored == 3     \* messages in the store before the session operations

\* ------------------------------------------------------ program constants
MAX_CONTEXT_MESSAGES == 10
MIN_SIMILARITY_SCORE == 7
SESSION_TIMEOUT_HOURS == 24
DEFAULT_TOP_K == 3

\* ----------------------------------------------------------- input sets
Requests == {1, 2}
SoloRequests == {1}
SessionIds == {"s1", "s2"}
UserTexts == {<<"q">>}
ChunkTexts == {<<>>, <<"a">>, <<"b">>}
FullTexts == {<<>>, <<"a">>, <<"a", "b">>}
\* what the index returns for a query: (document, score) by descending score
IndexResults ==
    { <<>>,
      <<[doc |-> "d1", score |-> 9]>>,
      <<[doc |-> "d2", score |-> 5]>>,
      <<[doc |-> "d1", score |-> 9], [doc |-> "d2", score |-> 5]>> }

NoSession == [exists |-> FALSE, created_at |-> 0, last_accessed |-> 0]
NoText == <<>>
SystemPreamble == <<"M">>

VARIABLES
    now,              \* datetime.now(): a reading, then the clock moves on
    sessions,         \* table sessions: session_id -> row
    messages,         \* table messages, in insertion order
    chatStreamParams, \* keyword parameters chat_stream and chat_completion accept
    pc,               \* per request: position in process_chat_stream
    session_id,       \* per request: argument session_id
    user_message,     \* per request: argument user_message
    use_rag,          \* per request: argument use_rag
    context_messages, \* per request: the context window sent to the backend
    rag_context,      \* per request: passages of prepare_context
    rag_metadata,     \* per request: metadata of prepare_context
    use_rag_prompt,   \* per request: flag handed to the backend
    backend,          \* per request: lines the backend has yet to deliver
    stream,           \* per request: state of the response stream
    lines,            \* per request: lines received from the backend so far
    yielded,          \* per request: objects chat_stream has yielded so far
    full_response,    \* per request: accumulated response text
    token_count,      \* per request: running token counter
    events,           \* per request: events yielded to the caller so far
    raised,           \* per request: exception that left the generator, or "none"
    index,            \* per request: what the similarity index returned to its query
    cutoff_time,      \* per request: cutoff_time of cleanup_expired_sessions
    purged,           \* per request: sessions whose rows its DELETE FROM messages removed
    ret               \* per request: the operation that returned last, and its value

vars == <<now, sessions, messages, chatStreamParams, pc, session_id, user_message,
          use_rag, context_messages, rag_context, rag_metadata, use_rag_prompt,
          backend, stream, lines, yielded, full_response, token_count, events, raised,
          index, cutoff_time, purged, ret>>

store == <<now, sessions, messages, chatStreamParams>>
args == <<session_id, user_message, use_rag>>
ragvars == <<rag_context, rag_metadata, index>>
loopvars == <<backend, stream, lines, yielded, full_response, token_count>>
opvars == <<cutoff_time, purged, ret>>

\* ------------------------------------------------------------ LLM client
\* def chat_stream(self, messages, max_new_tokens, temperature, do_sample)
SrcChatStreamParams == {"messages", "max_new_tokens", "temperature", "do_sample"}
\* streamChat(messages, maxNewTokens, temperature, doSample, context?) plus the flag
SpecChatStreamParams == SrcChatStreamParams \cup {"context", "use_rag_prompt"}
\* the keyword arguments process_chat_stream passes
CallKwargs == {"messages", "max_new_tokens", "temperature", "do_sample",
               "context", "use_rag_prompt"}

\* a line of the backend's response body
Line(kind, has, text) == [kind |-> kind, has |-> has, text |-> text]
BlankLine == Line("blank", FALSE, NoText)
NonDataLine == Line("nondata", FALSE, NoText)
MalformedLine == Line("malformed", FALSE, NoText)
SkippedLines == {BlankLine, NonDataLine, MalformedLine}
DoneLine == Line("done", FALSE, NoText)
ChunkFrames == { Line("chunk", TRUE, t) : t \in ChunkTexts }
CompleteFrames == { Line("complete", TRUE, t) : t \in FullTexts }
                     \cup { Line("complete", FALSE, NoText) }
ErrorFrame == Line("error", TRUE, <<"o">>)
OtherFrame == Line("other", FALSE, NoText)
ScalarFrame == Line("scalar", FALSE, NoText)
Frames == ChunkFrames \cup CompleteFrames \cup {ErrorFrame, OtherFrame, ScalarFrame}
Lines == SkippedLines \cup {DoneLine} \cup Frames

\* response bodies: every sequence of at most n lines over an alphabet
Bodies(alphabet, n) == UNION { [1..k -> alphabet] : k \in 0..n }
ChatLines == {MalformedLine, DoneLine} \cup Frames
ChatBodies == Bodies(ChatLines, MaxLines)

\* (mutant) a frame that does not parse is yielded as well
IsYieldedLenient(ln) == ln \in Frames \cup {MalformedLine}
\* if not line.strip(): continue / startswith("data: ") / json.loads
IsYielded(ln) == ln \in Frames
\* json.loads(line[6:]): the JSON value of the frame, with its type and, if it
\* has one, its content or full_response
Decode(ln) == [type |-> ln.kind, has |-> ln.has, value |-> ln.text]

\* ---------------------------------------------------------------- events
Event(type, content, count, rag, message) ==
    [type |-> type, content |-> content, count |-> count, rag |-> rag,
     message |-> message]
StartEvent == Event("start", NoText, 0, <<>>, "Stream started")
TokenEvent(content, count) == Event("token", content, count, <<>>, "")
CompleteEvent(total, rag) == Event("complete", NoText, total, rag, "")
ErrorEvent(message) == Event("error", NoText, 0, <<>>, message)

\* ------------------------------------------------------- return values
\* what an operation of the services hands back: the operation, its
\* arguments, whether the session was found, the rows and the row count
Return(op, sid, limit, found, rows, count) ==
    [op |-> op, sid |-> sid, limit |-> limit, found |-> found, rows |-> rows,
     count |-> count, rag |-> <<>>]
\* limit: Optional[int]
NoLimit == [given |-> FALSE, n |-> 0]
Limit(n) == [given |-> TRUE, n |-> n]
NoReturn == Return("none", "s1", NoLimit, FALSE, <<>>, 0)

\* ----------------------------------------------------------------- store
\* The tables are those the one shared connection sees: every operation goes
\* through db_manager.get_connection(), so a statement's effect is visible to
\* every other operation as soon as it has run, committed or not.
Message(r, sid, role, content, t) ==
    [message_id |-> <<r, role>>, session_id |-> sid, role |-> role,
     content |-> content, created_at |-> t]

\* (mutant) the UPDATE sets created_at as well
UpdateBothTimes(tbl, sid, t) ==
    [tbl EXCEPT ![sid] = IF tbl[sid].exists
                         THEN [tbl[sid] EXCEPT !.last_accessed = t, !.created_at = t]
                         ELSE tbl[sid]]
\* SessionService._update_last_accessed
UpdateLastAccessed(tbl, sid, t) ==
    [tbl EXCEPT ![sid] = IF tbl[sid].exists
                         THEN [tbl[sid] EXCEPT !.last_accessed = t]
                         ELSE tbl[sid]]

\* SessionService.get_session: the row, and the table after the call
GetSessionFound(tbl, sid) == tbl[sid].exists
\* (mutant) the row is written whether it was found or not
GetSessionTableUpsert(tbl, sid, t) ==
    [tbl EXCEPT ![sid] = [exists |-> TRUE, created_at |-> tbl[sid].created_at,
                          last_accessed |-> t]]
GetSessionTable(tbl, sid, t) ==
    IF GetSessionFound(tbl, sid) THEN UpdateLastAccessed(tbl, sid, t) ELSE tbl

\* (mutant) the row replaces the newest row of the table
SaveMessageOverwriting(tbl, m) ==
    IF tbl = <<>> THEN <<m>> ELSE [tbl EXCEPT ![Len(tbl)] = m]
\* ChatService.save_message: INSERT then commit
SaveMessage(tbl, m) == Append(tbl, m)

\* SessionService._session_exists
SessionExists(tbl, sid) == tbl[sid].exists

RECURSIVE Reverse(_)
Reverse(s) == IF s = <<>> THEN <<>> ELSE Append(Reverse(Tail(s)), Head(s))

Take(s, n) == IF Len(s) <= n THEN s ELSE SubSeq(s, 1, n)

\* SessionService.get_session_messages: absent (found = FALSE) without the
\* session, else its rows newest first (rows are inserted in the order of
\* their created_at, so ORDER BY created_at DESC is the reverse of the
\* insertion order); "if limit:" adds the LIMIT for a limit that is neither
\* None nor 0
IsOfSession(m, sid) == m.session_id = sid
Truthy(limit) == limit.given /\ limit.n # 0
GetSessionMessages(stbl, mtbl, sid, limit) ==
    LET own == SelectSeq(mtbl, LAMBDA m : IsOfSession(m, sid))
    IN  IF ~SessionExists(stbl, sid)
        THEN [found |-> FALSE, rows |-> <<>>]
        ELSE [found |-> TRUE,
              rows |-> IF Truthy(limit) THEN Take(Reverse(own), limit.n)
                       ELSE Reverse(own)]

\* (mutant) the rows are handed on newest first, without messages.reverse()
GetRecentMessagesUnreversed(stbl, mtbl, sid) ==
    LET got == GetSessionMessages(stbl, mtbl, sid, Limit(MAX_CONTEXT_MESSAGES))
    IN  [i \in 1..Len(got.rows) |->
            [role |-> got.rows[i].role, content |-> got.rows[i].content]]

\* SessionService.get_recent_messages_for_context
GetRecentMessagesForContext(stbl, mtbl, sid) ==
    LET got == GetSessionMessages(stbl, mtbl, sid, Limit(MAX_CONTEXT_MESSAGES))
        ms == Reverse(got.rows)
    IN  IF ~got.found \/ got.rows = <<>> THEN <<>>
        ELSE [i \in 1..Len(ms) |-> [role |-> ms[i].role, content |-> ms[i].content]]

\* process_chat_stream lines 137-142: prepend the preamble
WithPreamble(ctx) ==
    IF \E i \in 1..Len(ctx) : ctx[i].role = "system"
    THEN ctx
    ELSE <<[role |-> "system", content |-> SystemPreamble]>> \o ctx

\* ------------------------------------------------------------- retrieval
\* VectorService.search_similar: the threshold filter
\* (mutant) a passage exactly at the threshold is dropped
PassesThresholdStrictly(x) == x.score > MIN_SIMILARITY_SCORE
PassesThreshold(x) == x.score >= MIN_SIMILARITY_SCORE
SearchSimilar(results) == SelectSeq(results, PassesThreshold)

\* RAGService.prepare_context
PrepareDocs(found) == [i \in 1..Len(found) |-> found[i].doc]
PrepareMetadata(found) == found

\* ------------------------------------------------------------------ Init
\* The store holds session s1, with or without a message of an earlier request.
\* chat_stream is the method of llm_client.py, which has no parameter for the
\* context and use_rag_prompt keywords of its caller, or the method the caller
\* is written against, which has them.
PriorMessage == Message(0, "s1", "user", <<"p">>, 0)

Init ==
    /\ now = 0
    /\ sessions = [s \in SessionIds |->
                     IF s = "s1"
                     THEN [exists |-> TRUE, created_at |-> 0, last_accessed |-> 0]
                     ELSE NoSession]
    /\ messages \in {<<>>, <<PriorMessage>>}
    /\ chatStreamParams \in {SrcChatStreamParams, SpecChatStreamParams}
    /\ pc = [r \in Requests |-> "idle"]
    /\ session_id = [r \in Requests |-> "s1"]
    /\ user_message = [r \in Requests |-> NoText]
    /\ use_rag = [r \in Requests |-> FALSE]
    /\ context_messages = [r \in Requests |-> <<>>]
    /\ rag_context = [r \in Requests |-> <<>>]
    /\ rag_metadata = [r \in Requests |-> <<>>]
    /\ use_rag_prompt = [r \in Requests |-> FALSE]
    /\ backend = [r \in Requests |-> <<>>]
    /\ stream = [r \in Requests |-> "none"]
    /\ lines = [r \in Requests |-> <<>>]
    /\ yielded = [r \in Requests |-> <<>>]
    /\ full_response = [r \in Requests |-> NoText]
    /\ token_count = [r \in Requests |-> 0]
    /\ events = [r \in Requests |-> <<>>]
    /\ raised = [r \in Requests |-> "none"]
    /\ index = [r \in Requests |-> <<>>]
    /\ cutoff_time = [r \in Requests |-> 0]
    /\ purged = [r \in Requests |-> {}]
    /\ ret = [r \in Requests |-> NoReturn]

\* ------------------------------------------- ChatService.process_chat_stream
\* the exception leaves the generator: nothing catches it before the try
Propagate(r, e) ==
    /\ pc' = [pc EXCEPT ![r] = "raised"]
    /\ raised' = [raised EXCEPT ![r] = e]

\* except Exception as e: yield {"type": "error", "message": str(e)}
Caught(r, e) ==
    /\ events' = [events EXCEPT ![r] = Append(@, ErrorEvent(e))]
    /\ pc' = [pc EXCEPT ![r] = "done"]

\* the endpoint calls process_chat_stream(session_id, message, ..., use_rag)
Call(r) ==
    /\ pc[r] = "idle"
    /\ \E sid \in SessionIds, text \in UserTexts, rag \in BOOLEAN :
         /\ session_id' = [session_id EXCEPT ![r] = sid]
         /\ user_message' = [user_message EXCEPT ![r] = text]
         /\ use_rag' = [use_rag EXCEPT ![r] = rag]
    /\ pc' = [pc EXCEPT ![r] = "validate"]
    /\ UNCHANGED <<opvars, store, context_messages, ragvars, use_rag_prompt, loopvars,
                   events, raised>>

\* lines 129-131: session = get_session(...); if not session: raise ValueError
Validate(r) ==
    /\ pc[r] = "validate"
    /\ sessions' = GetSessionTable(sessions, session_id[r], now)
    /\ IF GetSessionFound(sessions, session_id[r])
       THEN /\ pc' = [pc EXCEPT ![r] = "persist_in"]
            /\ now' = now + 1
            /\ UNCHANGED raised
       ELSE /\ Propagate(r, "SessionNotFound")
            /\ UNCHANGED now
    /\ UNCHANGED <<opvars, messages, chatStreamParams, args, context_messages, ragvars,
                   use_rag_prompt, loopvars, events>>

\* (mutant) the inbound message is not written before the context is assembled
PersistInboundSkipped(r) ==
    /\ pc[r] = "persist_in"
    /\ pc' = [pc EXCEPT ![r] = "context"]
    /\ now' = now + 1
    /\ UNCHANGED <<opvars, sessions, messages, chatStreamParams, args, context_messages, ragvars,
                   use_rag_prompt, loopvars, events, raised>>

\* (mutant) a request waits at its inbound persist step while another request
\* of the session is between its own inbound persist step and its end
PersistInboundExclusive(r) ==
    /\ \A o \in Requests \ {r} :
          pc[o] \notin {"context", "rag", "start", "call", "loop", "persist_out"}
    /\ pc[r] = "persist_in"
    /\ \/ /\ messages' = SaveMessage(messages,
                Message(r, session_id[r], "user", user_message[r], now))
          /\ pc' = [pc EXCEPT ![r] = "context"]
          /\ UNCHANGED raised
       \/ /\ Propagate(r, "StoreError")
          /\ UNCHANGED messages
    /\ now' = now + 1
    /\ UNCHANGED <<opvars, sessions, chatStreamParams, args, context_messages, ragvars,
                   use_rag_prompt, loopvars, events>>

\* line 133: save_message(session_id, "user", user_message)
PersistInbound(r) ==
    /\ pc[r] = "persist_in"
    /\ \/ /\ messages' = SaveMessage(messages,
                Message(r, session_id[r], "user", user_message[r], now))
          /\ pc' = [pc EXCEPT ![r] = "context"]
          /\ UNCHANGED raised
       \/ /\ Propagate(r, "StoreError")
          /\ UNCHANGED messages
    /\ now' = now + 1
    /\ UNCHANGED <<opvars, sessions, chatStreamParams, args, context_messages, ragvars,
                   use_rag_prompt, loopvars, events>>

\* lines 135-142: the context window, with the preamble
AssembleContext(r) ==
    /\ pc[r] = "context"
    /\ context_messages' = [context_messages EXCEPT ![r] =
            WithPreamble(GetRecentMessagesForContext(sessions, messages, session_id[r]))]
    /\ pc' = [pc EXCEPT ![r] = IF use_rag[r] THEN "rag" ELSE "start"]
    /\ UNCHANGED <<opvars, store, args, ragvars, use_rag_prompt, loopvars, events, raised>>

\* lines 153-158: rag_service.prepare_context(query, session_id, top_k);
\* answers is what collection.query may return to the query
PrepareContext(r, answers) ==
    /\ pc[r] = "rag"
    /\ \/ \E results \in answers :
            LET found == SearchSimilar(results) IN
            /\ index' = [index EXCEPT ![r] = results]
            /\ rag_context' = [rag_context EXCEPT ![r] = PrepareDocs(found)]
            /\ rag_metadata' = [rag_metadata EXCEPT ![r] = PrepareMetadata(found)]
            /\ pc' = [pc EXCEPT ![r] = "start"]
            /\ UNCHANGED raised
       \/ \E e \in {"EmbeddingError", "IndexError"} :
            /\ Propagate(r, e)
            /\ UNCHANGED ragvars
    /\ UNCHANGED <<opvars, store, args, context_messages, use_rag_prompt, loopvars, events>>

\* lines 163-167: yield {"type": "start"}
EmitStart(r) ==
    /\ pc[r] = "start"
    /\ events' = [events EXCEPT ![r] = Append(@, StartEvent)]
    /\ pc' = [pc EXCEPT ![r] = "call"]
    /\ UNCHANGED <<opvars, store, args, context_messages, ragvars, use_rag_prompt, loopvars,
                   raised>>

\* (mutant) the flag follows use_rag alone
UseRagPromptAlways(rag, ctx) == rag
\* line 175: use_rag and rag_context is not None and len(rag_context) > 0
UseRagPrompt(rag, ctx) == rag /\ Len(ctx) > 0

\* a call binds when the callee has a parameter for every keyword passed
Binds(kwargs, params) == kwargs \subseteq params

\* lines 169-176 with llm_client.py 43-64: bind the arguments, open the stream;
\* body is what the backend answers to this request's POST /chat/stream (when
\* the call does not bind the backend is never asked)
OpenStream(r, bodies) ==
    /\ pc[r] = "call"
    /\ \E body \in bodies : backend' = [backend EXCEPT ![r] = body]
    /\ IF ~Binds(CallKwargs, chatStreamParams)
       THEN /\ Caught(r, "TypeError")
            /\ UNCHANGED <<use_rag_prompt, stream>>
       ELSE /\ use_rag_prompt' = [use_rag_prompt EXCEPT ![r] =
                                    UseRagPrompt(use_rag[r], rag_context[r])]
            /\ \/ /\ pc' = [pc EXCEPT ![r] = "loop"]
                  /\ stream' = [stream EXCEPT ![r] = "open"]
                  /\ UNCHANGED events
               \/ /\ Caught(r, "HTTPError")
                  /\ stream' = [stream EXCEPT ![r] = "refused"]
    /\ UNCHANGED <<opvars, store, args, context_messages, ragvars, lines, yielded,
                   full_response, token_count, raised>>

\* (mutant) the event carries the counter before it is incremented
OnChunkStaleCount(r, ln) ==
    /\ full_response' = [full_response EXCEPT ![r] = @ \o ln.text]
    /\ token_count' = [token_count EXCEPT ![r] = @ + 1]
    /\ events' = [events EXCEPT ![r] = Append(@, TokenEvent(ln.text, token_count[r]))]
    /\ UNCHANGED pc

\* lines 177-186: a chunk frame
OnChunk(r, ln) ==
    /\ full_response' = [full_response EXCEPT ![r] = @ \o ln.text]
    /\ token_count' = [token_count EXCEPT ![r] = @ + 1]
    /\ events' = [events EXCEPT ![r] = Append(@, TokenEvent(ln.text, token_count[r] + 1))]
    /\ UNCHANGED pc

\* (mutant) the accumulated text is kept whatever the backend's text
ReconcileNever(acc, ln) == acc
\* (mutant) the backend's text replaces the accumulated text even when empty
ReconcileAlways(acc, ln) == IF ln.has THEN ln.text ELSE acc

\* lines 189-191: final_response = chunk.get("full_response", full_response)
Reconcile(acc, ln) ==
    LET final_response == IF ln.has THEN ln.text ELSE acc
    IN  IF final_response # <<>> /\ final_response # acc THEN final_response ELSE acc

\* line 196: rag_metadata if use_rag and rag_metadata else None
RagSummary(rag, meta) == IF rag /\ meta # <<>> THEN meta ELSE <<>>

\* lines 188-197: a complete frame
OnComplete(r, ln) ==
    /\ full_response' = [full_response EXCEPT ![r] = Reconcile(@, ln)]
    /\ events' = [events EXCEPT ![r] =
            Append(@, CompleteEvent(token_count[r], RagSummary(use_rag[r], rag_metadata[r])))]
    /\ UNCHANGED <<pc, token_count>>

\* lines 199-201: an error frame is relayed and the generator returns
OnError(r, ln) ==
    /\ events' = [events EXCEPT ![r] = Append(@, ErrorEvent("backend"))]
    /\ pc' = [pc EXCEPT ![r] = "done"]
    /\ UNCHANGED <<full_response, token_count>>

\* a frame that is not a JSON object: chunk.get raises AttributeError
OnScalar(r, ln) ==
    /\ Caught(r, "AttributeError")
    /\ UNCHANGED <<full_response, token_count>>

\* llm_client.py 66-80 with chat_service.py 169-201: the next line of the response
ReceiveLine(r) ==
    /\ pc[r] = "loop"
    /\ backend[r] # <<>>
    /\ LET ln == Head(backend[r]) IN
         /\ backend' = [backend EXCEPT ![r] = Tail(@)]
         /\ lines' = [lines EXCEPT ![r] = Append(@, ln)]
         /\ yielded' = [yielded EXCEPT ![r] =
                IF IsYielded(ln) THEN Append(@, Decode(ln)) ELSE @]
         /\ CASE ln.kind = "chunk" -> OnChunk(r, ln) /\ UNCHANGED stream
              [] ln.kind = "complete" -> OnComplete(r, ln) /\ UNCHANGED stream
              [] ln.kind = "error" -> OnError(r, ln) /\ UNCHANGED stream
              [] ln.kind = "scalar" -> OnScalar(r, ln) /\ UNCHANGED stream
              [] ln.kind = "done" ->
                    /\ pc' = [pc EXCEPT ![r] = "persist_out"]
                    /\ stream' = [stream EXCEPT ![r] = "ended"]
                    /\ UNCHANGED <<full_response, token_count, events>>
              [] OTHER -> UNCHANGED <<pc, stream, full_response, token_count, events>>
    /\ UNCHANGED <<opvars, store, args, context_messages, ragvars, use_rag_prompt, raised>>

\* aiter_lines() is exhausted: the backend closed the response
StreamEnds(r) ==
    /\ pc[r] = "loop"
    /\ backend[r] = <<>>
    /\ pc' = [pc EXCEPT ![r] = "persist_out"]
    /\ stream' = [stream EXCEPT ![r] = "ended"]
    /\ UNCHANGED <<opvars, store, args, context_messages, ragvars, use_rag_prompt, backend,
                   lines, yielded, full_response, token_count, events, raised>>

\* (mutant) the exception is not caught
StreamFailsUncaught(r) ==
    /\ pc[r] = "loop"
    /\ Propagate(r, "ReadError")
    /\ stream' = [stream EXCEPT ![r] = "failed"]
    /\ UNCHANGED <<opvars, store, args, context_messages, ragvars, use_rag_prompt, backend,
                   lines, yielded, full_response, token_count, events>>

\* aiter_lines() raises (timeout, transport failure)
StreamFails(r) ==
    /\ pc[r] = "loop"
    /\ Caught(r, "ReadError")
    /\ stream' = [stream EXCEPT ![r] = "failed"]
    /\ UNCHANGED <<opvars, store, args, context_messages, ragvars, use_rag_prompt, backend,
                   lines, yielded, full_response, token_count, raised>>

\* (mutant) the text is saved whether it is empty or not
ShouldPersistAlways(text) == TRUE
\* lines 203-208: if full_response: save_message(..., "assistant", full_response)
ShouldPersist(text) == text # <<>>
PersistOutbound(r) ==
    /\ pc[r] = "persist_out"
    /\ IF ShouldPersist(full_response[r])
       THEN \/ /\ messages' = SaveMessage(messages,
                     Message(r, session_id[r], "assistant", full_response[r], now))
               /\ pc' = [pc EXCEPT ![r] = "done"]
               /\ now' = now + 1
               /\ UNCHANGED events
            \/ /\ Caught(r, "StoreError")
               /\ now' = now + 1
               /\ UNCHANGED messages
       ELSE /\ pc' = [pc EXCEPT ![r] = "done"]
            /\ UNCHANGED <<now, messages, events>>
    /\ UNCHANGED <<opvars, sessions, chatStreamParams, args, context_messages, ragvars,
                   use_rag_prompt, loopvars, raised>>

\* -------------------------------------------------------- SessionService
\* Each request is one call of one operation: pc goes from "idle" to "done".
\* The session operations are called when more than SESSION_TIMEOUT_HOURS
\* have passed since the first session was created.
Start == SESSION_TIMEOUT_HOURS + 2
Limits == {NoLimit} \cup { Limit(n) : n \in 0..2 }

SessionRow(sid, created, accessed) ==
    [session_id |-> sid, created_at |-> created, last_accessed |-> accessed]

\* create_session: uuid4 gives an id no session has
CreateSession(r) ==
    /\ pc[r] = "idle"
    /\ \E sid \in SessionIds :
         /\ ~sessions[sid].exists
         /\ sessions' = [sessions EXCEPT ![sid] =
                [exists |-> TRUE, created_at |-> now, last_accessed |-> now]]
         /\ ret' = [ret EXCEPT ![r] =
                Return("create_session", sid, NoLimit, TRUE,
                       <<SessionRow(sid, now, now)>>, 0)]
    /\ now' = now + 1
    /\ pc' = [pc EXCEPT ![r] = "done"]
    /\ UNCHANGED <<messages, chatStreamParams, args, context_messages, ragvars,
                   use_rag_prompt, loopvars, events, raised, cutoff_time, purged>>

\* get_session: the row read, _update_last_accessed with one reading of the
\* clock, the record returned with a second one
GetSession(r) ==
    /\ pc[r] = "idle"
    /\ \E sid \in SessionIds :
         /\ sessions' = GetSessionTable(sessions, sid, now)
         /\ IF GetSessionFound(sessions, sid)
            THEN /\ ret' = [ret EXCEPT ![r] =
                        Return("get_session", sid, NoLimit, TRUE,
                               <<SessionRow(sid, sessions[sid].created_at, now + 1)>>, 0)]
                 /\ now' = now + 2
            ELSE /\ ret' = [ret EXCEPT ![r] =
                        Return("get_session", sid, NoLimit, FALSE, <<>>, 0)]
                 /\ UNCHANGED now
    /\ pc' = [pc EXCEPT ![r] = "done"]
    /\ UNCHANGED <<messages, chatStreamParams, args, context_messages, ragvars,
                   use_rag_prompt, loopvars, events, raised, cutoff_time, purged>>

\* delete_session line 63-65: SELECT 1 FROM sessions; return False
DeleteSelect(r) ==
    /\ pc[r] = "idle"
    /\ \E sid \in SessionIds :
         /\ session_id' = [session_id EXCEPT ![r] = sid]
         /\ IF sessions[sid].exists
            THEN /\ pc' = [pc EXCEPT ![r] = "del_messages"]
                 /\ UNCHANGED ret
            ELSE /\ ret' = [ret EXCEPT ![r] =
                        Return("delete_session", sid, NoLimit, FALSE, <<>>, 0)]
                 /\ pc' = [pc EXCEPT ![r] = "done"]
    /\ UNCHANGED <<store, user_message, use_rag, context_messages, ragvars,
                   use_rag_prompt, loopvars, events, raised, cutoff_time, purged>>

\* (mutant) the messages are left in place
DeleteMessagesNone(mtbl, sid) == mtbl
\* DELETE FROM messages WHERE session_id = ?
DeleteMessagesOf(mtbl, sid) == SelectSeq(mtbl, LAMBDA m : ~IsOfSession(m, sid))

\* delete_session line 67
DeleteMessages(r) ==
    /\ pc[r] = "del_messages"
    /\ messages' = DeleteMessagesOf(messages, session_id[r])
    /\ pc' = [pc EXCEPT ![r] = "del_session"]
    /\ UNCHANGED <<now, sessions, chatStreamParams, args, context_messages, ragvars,
                   use_rag_prompt, loopvars, events, raised, opvars>>

\* delete_session lines 68-71: DELETE FROM sessions, commit, return True
DeleteSessionRow(r) ==
    /\ pc[r] = "del_session"
    /\ sessions' = [sessions EXCEPT ![session_id[r]] = NoSession]
    /\ ret' = [ret EXCEPT ![r] =
            Return("delete_session", session_id[r], NoLimit, TRUE, <<>>, 0)]
    /\ pc' = [pc EXCEPT ![r] = "done"]
    /\ UNCHANGED <<now, messages, chatStreamParams, args, context_messages, ragvars,
                   use_rag_prompt, loopvars, events, raised, cutoff_time, purged>>

\* (mutant) a session last accessed exactly at the cutoff expires too
StaleOrAtCutoff(row, cutoff) == row.exists /\ row.last_accessed <= cutoff
\* WHERE last_accessed < ?
Stale(row, cutoff) == row.exists /\ row.last_accessed < cutoff

\* cleanup_expired_sessions lines 129-139: the cutoff, DELETE FROM messages
CleanupMessages(r) ==
    /\ pc[r] = "idle"
    /\ LET cutoff == now - SESSION_TIMEOUT_HOURS IN
         /\ cutoff_time' = [cutoff_time EXCEPT ![r] = cutoff]
         /\ messages' = SelectSeq(messages,
                LAMBDA m : ~Stale(sessions[m.session_id], cutoff))
         /\ purged' = [purged EXCEPT ![r] =
                { messages[i].session_id : i \in
                    { j \in 1..Len(messages) :
                        Stale(sessions[messages[j].session_id], cutoff) } }]
    /\ now' = now + 1
    /\ pc' = [pc EXCEPT ![r] = "cleanup_sessions"]
    /\ UNCHANGED <<sessions, chatStreamParams, args, context_messages, ragvars,
                   use_rag_prompt, loopvars, events, raised, ret>>

\* cleanup_expired_sessions lines 141-147: DELETE FROM sessions, commit,
\* return cursor.rowcount
CleanupSessions(r) ==
    /\ pc[r] = "cleanup_sessions"
    /\ LET gone == { s \in SessionIds : Stale(sessions[s], cutoff_time[r]) } IN
         /\ sessions' = [s \in SessionIds |->
                            IF s \in gone THEN NoSession ELSE sessions[s]]
         /\ ret' = [ret EXCEPT ![r] =
                Return("cleanup_expired_sessions", "s1", NoLimit, TRUE, <<>>,
                       Cardinality(gone))]
    /\ pc' = [pc EXCEPT ![r] = "done"]
    /\ UNCHANGED <<now, messages, chatStreamParams, args, context_messages, ragvars,
                   use_rag_prompt, loopvars, events, raised, cutoff_time, purged>>

\* the endpoint GET /sessions/{id}/messages?limit=: get_session_messages
GetHistory(r) ==
    /\ pc[r] = "idle"
    /\ \E sid \in SessionIds, limit \in Limits :
         LET got == GetSessionMessages(sessions, messages, sid, limit) IN
         ret' = [ret EXCEPT ![r] =
            Return("get_session_messages", sid, limit, got.found, got.rows,
                   Len(got.rows))]
    /\ pc' = [pc EXCEPT ![r] = "done"]
    /\ UNCHANGED <<store, args, context_messages, ragvars, use_rag_prompt,
                   loopvars, events, raised, cutoff_time, purged>>

StoreStep(r) ==
    \/ CreateSession(r)
    \/ GetSession(r)
    \/ DeleteSelect(r)
    \/ DeleteMessages(r)
    \/ DeleteSessionRow(r)
    \/ CleanupMessages(r)
    \/ CleanupSessions(r)
    \/ GetHistory(r)

\* where a run of process_chat_stream can be suspended
StreamPositions ==
    {"validate", "persist_in", "context", "rag", "start", "call", "loop", "persist_out"}

\* save_message cut short: the INSERT (and the commit) the connection's worker
\* already holds runs to its end, or the cancellation came before it was handed over
SaveMessageCancelled(tbl, m) == {tbl, SaveMessage(tbl, m)}

\* (mutant) the text accumulated so far is saved when the run is cancelled
CancelSavesPartial(r) ==
    /\ pc[r] \in StreamPositions
    /\ pc' = [pc EXCEPT ![r] = "cancelled"]
    /\ messages' = SaveMessage(messages,
            Message(r, session_id[r], "assistant", full_response[r], now))
    /\ UNCHANGED <<opvars, now, sessions, chatStreamParams, args, context_messages, ragvars,
                   use_rag_prompt, loopvars, events, raised>>

\* ------------------------------------------ ChatService.process_chat_request
\* the body of the answer to POST /chat: a JSON object with or without the
\* key "response"
ResponseBodies ==
    { <<Line("response", TRUE, t)>> : t \in FullTexts }
        \cup { <<Line("response", FALSE, NoText)>> }

\* ChatResponse(message_id, role, content, created_at, token_usage, rag_context)
ChatResponse(m, rag) ==
    [Return("process_chat_request", m.session_id, NoLimit, TRUE, <<m>>, 1)
        EXCEPT !.rag = rag]

\* the endpoint calls process_chat_request(session_id, message, ..., use_rag)
RequestCall(r) ==
    /\ pc[r] = "idle"
    /\ \E sid \in SessionIds, text \in UserTexts, rag \in BOOLEAN :
         /\ session_id' = [session_id EXCEPT ![r] = sid]
         /\ user_message' = [user_message EXCEPT ![r] = text]
         /\ use_rag' = [use_rag EXCEPT ![r] = rag]
    /\ pc' = [pc EXCEPT ![r] = "req_validate"]
    /\ UNCHANGED <<opvars, store, context_messages, ragvars, use_rag_prompt, loopvars,
                   events, raised>>

\* lines 61-63: session = get_session(...); if not session: raise ValueError
RequestValidate(r) ==
    /\ pc[r] = "req_validate"
    /\ sessions' = GetSessionTable(sessions, session_id[r], now)
    /\ IF GetSessionFound(sessions, session_id[r])
       THEN /\ pc' = [pc EXCEPT ![r] = "req_persist_in"]
            /\ now' = now + 1
            /\ UNCHANGED raised
       ELSE /\ Propagate(r, "SessionNotFound")
            /\ UNCHANGED now
    /\ UNCHANGED <<opvars, messages, chatStreamParams, args, context_messages, ragvars,
                   use_rag_prompt, loopvars, events>>

\* line 65: save_message(session_id, "user", user_message)
RequestPersistInbound(r) ==
    /\ pc[r] = "req_persist_in"
    /\ \/ /\ messages' = SaveMessage(messages,
                Message(r, session_id[r], "user", user_message[r], now))
          /\ pc' = [pc EXCEPT ![r] = "req_context"]
          /\ UNCHANGED raised
       \/ /\ Propagate(r, "StoreError")
          /\ UNCHANGED messages
    /\ now' = now + 1
    /\ UNCHANGED <<opvars, sessions, chatStreamParams, args, context_messages, ragvars,
                   use_rag_prompt, loopvars, events>>

\* lines 67-74: the context window, with the preamble
RequestContext(r) ==
    /\ pc[r] = "req_context"
    /\ context_messages' = [context_messages EXCEPT ![r] =
            WithPreamble(GetRecentMessagesForContext(sessions, messages, session_id[r]))]
    /\ pc' = [pc EXCEPT ![r] = IF use_rag[r] THEN "req_rag" ELSE "req_call"]
    /\ UNCHANGED <<opvars, store, args, ragvars, use_rag_prompt, loopvars, events, raised>>

\* lines 83-90: rag_service.prepare_context(query, session_id, top_k)
RequestPrepareContext(r, answers) ==
    /\ pc[r] = "req_rag"
    /\ \/ \E results \in answers :
            LET found == SearchSimilar(results) IN
            /\ index' = [index EXCEPT ![r] = results]
            /\ rag_context' = [rag_context EXCEPT ![r] = PrepareDocs(found)]
            /\ rag_metadata' = [rag_metadata EXCEPT ![r] = PrepareMetadata(found)]
            /\ pc' = [pc EXCEPT ![r] = "req_call"]
            /\ UNCHANGED raised
       \/ \E e \in {"EmbeddingError", "IndexError"} :
            /\ Propagate(r, e)
            /\ UNCHANGED ragvars
    /\ UNCHANGED <<opvars, store, args, context_messages, use_rag_prompt, loopvars, events>>

\* lines 92-99 with llm_client.py 20-41: bind the arguments, POST /chat,
\* raise_for_status, response.json(); body is what the backend answers to the
\* request (when the call does not bind the backend is never asked)
ChatCompletion(r) ==
    /\ pc[r] = "req_call"
    /\ IF ~Binds(CallKwargs, chatStreamParams)
       THEN /\ Propagate(r, "TypeError")
            /\ \E body \in ResponseBodies : backend' = [backend EXCEPT ![r] = body]
            /\ UNCHANGED <<use_rag_prompt, stream, lines>>
       ELSE /\ use_rag_prompt' = [use_rag_prompt EXCEPT ![r] =
                                    UseRagPrompt(use_rag[r], rag_context[r])]
            /\ \/ /\ \E body \in ResponseBodies : lines' = [lines EXCEPT ![r] = body]
                  /\ pc' = [pc EXCEPT ![r] = "req_persist_out"]
                  /\ stream' = [stream EXCEPT ![r] = "ended"]
                  /\ UNCHANGED <<raised, backend>>
               \/ /\ Propagate(r, "HTTPError")
                  /\ stream' = [stream EXCEPT ![r] = "refused"]
                  /\ UNCHANGED <<lines, backend>>
    /\ UNCHANGED <<opvars, store, args, context_messages, ragvars, yielded,
                   full_response, token_count, events>>

\* lines 101-115: save_message(..., "assistant", llm_response["response"]) and
\* the ChatResponse; a body without the key raises KeyError before the save
RequestPersistOutbound(r) ==
    /\ pc[r] = "req_persist_out"
    /\ LET llm_response == lines[r][1]
           m == Message(r, session_id[r], "assistant", llm_response.text, now)
       IN  IF ~llm_response.has
           THEN /\ Propagate(r, "KeyError")
                /\ UNCHANGED <<now, messages, full_response, ret>>
           ELSE /\ full_response' = [full_response EXCEPT ![r] = llm_response.text]
                /\ now' = now + 1
                /\ \/ /\ messages' = SaveMessage(messages, m)
                      /\ ret' = [ret EXCEPT ![r] =
                                    ChatResponse(m, RagSummary(use_rag[r], rag_metadata[r]))]
                      /\ pc' = [pc EXCEPT ![r] = "done"]
                      /\ UNCHANGED raised
                   \/ /\ Propagate(r, "StoreError")
                      /\ UNCHANGED <<messages, ret>>
    /\ UNCHANGED <<cutoff_time, purged, sessions, chatStreamParams, args, context_messages,
                   ragvars, use_rag_prompt, backend, stream, lines, yielded, token_count,
                   events>>

RequestStep(r) ==
    \/ RequestCall(r)
    \/ RequestValidate(r)
    \/ RequestPersistInbound(r)
    \/ RequestContext(r)
    \/ RequestPrepareContext(r, IndexResults)
    \/ ChatCompletion(r)
    \/ RequestPersistOutbound(r)

\* the caller stops consuming: the task is cancelled where it is suspended
\* (CancelledError and GeneratorExit are not Exception, so neither except
\* clause runs and nothing after the suspension point does)
Cancel(r) ==
    /\ pc[r] \in StreamPositions
    /\ pc' = [pc EXCEPT ![r] = "cancelled"]
    /\ CASE pc[r] = "persist_in" ->
               messages' \in SaveMessageCancelled(messages,
                   Message(r, session_id[r], "user", user_message[r], now))
         [] pc[r] = "persist_out" /\ ShouldPersist(full_response[r]) ->
               messages' \in SaveMessageCancelled(messages,
                   Message(r, session_id[r], "assistant", full_response[r], now))
         [] OTHER -> UNCHANGED messages
    /\ UNCHANGED <<opvars, now, sessions, chatStreamParams, args, context_messages, ragvars,
                   use_rag_prompt, loopvars, events, raised>>

StreamStep(r, bodies) ==
    \/ Call(r)
    \/ Validate(r)
    \/ PersistInbound(r)
    \/ AssembleContext(r)
    \/ PrepareContext(r, IndexResults)
    \/ EmitStart(r)
    \/ OpenStream(r, bodies)
    \/ ReceiveLine(r)
    \/ StreamEnds(r)
    \/ StreamFails(r)
    \/ PersistOutbound(r)
    \/ Cancel(r)

Step(r) == StreamStep(r, ChatBodies)

Next == \E r \in SoloRequests : Step(r)

Spec == Init /\ [][Next]_vars

\* ------------------------------------------- the endpoint POST /chat/stream
\* a line of the server-sent stream: "data: <json>" or "data: [DONE]"
NoEvent == Event("none", NoText, 0, <<>>, "")
DataLine(e) == [sse |-> "data", json |-> e]
DoneSentinel == [sse |-> "[DONE]", json |-> NoEvent]
\* except ValueError: str(e); except Exception: "Chat processing failed: ..."
EndpointMessage(e) == IF e = "SessionNotFound" THEN e ELSE "Chat processing failed"

\* generate_stream: what the endpoint has sent for a run that emitted evs and
\* is at position pos, having raised exc if it raised
GenerateStream(evs, pos, exc) ==
    LET relayed == [i \in 1..Len(evs) |-> DataLine(evs[i])]
    IN  CASE pos = "done" -> relayed \o <<DoneSentinel>>
          [] pos = "raised" -> relayed \o <<DataLine(ErrorEvent(EndpointMessage(exc)))>>
          [] OTHER -> relayed

\* ------------------------------------- both endpoints, with short answers
BriefLines == {Line("chunk", TRUE, <<"a">>), Line("complete", FALSE, NoText), DoneLine}
BriefBodies == Bodies(BriefLines, MaxBrief)

ChatNext == \E r \in SoloRequests : StreamStep(r, BriefBodies) \/ RequestStep(r)

ChatSpec == Init /\ [][ChatNext]_vars

\* ------------------------------------------------ the context window alone
\* A store with a history of earlier requests: n messages, user and assistant
\* in turn, the k-th (if any) a system message, the j-th (if any) of another
\* session; request 1 has passed validation and is about to save its message.
Letters == <<"a", "b", "c", "d", "e", "f", "g", "h", "i", "j", "k", "l", "m", "n",
             "o", "p">>
HistoryMessage(i, k, j) ==
    Message(0 - i,
            IF i = j THEN "s2" ELSE "s1",
            IF i = k THEN "system" ELSE IF i % 2 = 1 THEN "user" ELSE "assistant",
            <<Letters[i]>>, i)
History(n, k, j) == [i \in 1..n |-> HistoryMessage(i, k, j)]

\* the per-request variables a request has not touched before it calls the backend
Unstarted ==
    /\ context_messages = [r \in Requests |-> <<>>]
    /\ rag_context = [r \in Requests |-> <<>>]
    /\ rag_metadata = [r \in Requests |-> <<>>]
    /\ use_rag_prompt = [r \in Requests |-> FALSE]
    /\ backend = [r \in Requests |-> <<>>]
    /\ stream = [r \in Requests |-> "none"]
    /\ lines = [r \in Requests |-> <<>>]
    /\ yielded = [r \in Requests |-> <<>>]
    /\ full_response = [r \in Requests |-> NoText]
    /\ token_count = [r \in Requests |-> 0]
    /\ events = [r \in Requests |-> <<>>]
    /\ raised = [r \in Requests |-> "none"]
    /\ index = [r \in Requests |-> <<>>]
    /\ cutoff_time = [r \in Requests |-> 0]
    /\ purged = [r \in Requests |-> {}]
    /\ ret = [r \in Requests |-> NoReturn]

ContextInit ==
    /\ \E n \in 0..MaxHistory, k \in 0..MaxHistory, j \in 0..MaxHistory :
          /\ k <= n /\ j <= n
          /\ messages = History(n, k, j)
          /\ now = n + 1
          /\ sessions = [s \in SessionIds |->
                           [exists |-> TRUE, created_at |-> 0, last_accessed |-> n]]
    /\ chatStreamParams = SrcChatStreamParams
    /\ pc = [r \in Requests |-> IF r \in SoloRequests THEN "persist_in" ELSE "idle"]
    /\ session_id = [r \in Requests |-> "s1"]
    /\ user_message \in [Requests -> UserTexts]
    /\ use_rag = [r \in Requests |-> FALSE]
    /\ Unstarted

ContextNext == \E r \in SoloRequests : PersistInbound(r) \/ AssembleContext(r)

ContextSpec == ContextInit /\ [][ContextNext]_vars

\* ------------------------------------------------ the session operations
\* Stores the program can have built up by Start: each session absent or
\* created at 0 and last accessed before, at or after the first cutoff, and
\* up to MaxStored messages of the sessions there are.
StoredMessage(i, sid) ==
    Message(0 - i, sid, IF i % 2 = 1 THEN "user" ELSE "assistant", <<Letters[i]>>, i)
StoredSessions ==
    [SessionIds -> {NoSession} \cup
        { [exists |-> TRUE, created_at |-> 0, last_accessed |-> t] : t \in 1..3 }]
StoredMessages(stbl) ==
    { [i \in 1..Len(owner) |-> StoredMessage(i, owner[i])] :
        owner \in UNION { [1..n -> { s \in SessionIds : stbl[s].exists }] :
                            n \in 0..MaxStored } }

StoreInit ==
    /\ now = Start
    /\ sessions \in StoredSessions
    /\ messages \in StoredMessages(sessions)
    /\ chatStreamParams = SrcChatStreamParams
    /\ pc = [r \in Requests |-> "idle"]
    /\ session_id = [r \in Requests |-> "s1"]
    /\ user_message = [r \in Requests |-> NoText]
    /\ use_rag = [r \in Requests |-> FALSE]
    /\ Unstarted

StoreNext == \E r \in SoloRequests : StoreStep(r)

StoreSpec == StoreInit /\ [][StoreNext]_vars

\* ------------------------------ a chat request beside session operations
\* request 1 streams a chat while the other request runs session operations
\* on the same connection; session s1 is there, stale or fresh, with or
\* without a message of an earlier request
Operators == Requests \ SoloRequests
RaceInit ==
    /\ now = Start
    /\ \E t \in {1, 3} :
          sessions = [s \in SessionIds |->
                        IF s = "s1"
                        THEN [exists |-> TRUE, created_at |-> 0, last_accessed |-> t]
                        ELSE NoSession]
    /\ messages \in {<<>>, <<StoredMessage(1, "s1")>>}
    /\ chatStreamParams \in {SrcChatStreamParams, SpecChatStreamParams}
    /\ pc = [r \in Requests |-> "idle"]
    /\ session_id = [r \in Requests |-> "s1"]
    /\ user_message = [r \in Requests |-> NoText]
    /\ use_rag = [r \in Requests |-> FALSE]
    /\ Unstarted

RaceNext ==
    \/ \E r \in SoloRequests : StreamStep(r, BriefBodies)
    \/ \E r \in Operators : StoreStep(r)

RaceSpec == RaceInit /\ [][RaceNext]_vars

\* ------------------------------------- two session operations side by side
\* each request runs one operation of SessionService on the shared connection
OpsNext == \E r \in Requests : StoreStep(r)

OpsSpec == RaceInit /\ [][OpsNext]_vars

\* ------------------------------------------ every operation on the store
\* request 1 is a chat request of either endpoint, the other request an
\* operation of SessionService
FrameNext ==
    \/ \E r \in SoloRequests : StreamStep(r, BriefBodies) \/ RequestStep(r)
    \/ \E r \in Operators : StoreStep(r)

FrameSpec == RaceInit /\ [][FrameNext]_vars

\* ------------------------------------------------------ retrieval alone
\* collection.query(n_results = top_k): at most top_k chunks, nearest first,
\* so by non-increasing similarity
Documents == {"d1", "d2", "d3"}
Scores == {5, MIN_SIMILARITY_SCORE, 9}
Chunks == [doc : Documents, score : Scores]
NearestFirst(results) ==
    \A i \in 1..(Len(results) - 1) : results[i].score >= results[i + 1].score
QueryResults(top_k) ==
    { results \in UNION { [1..k -> Chunks] : k \in 0..top_k } : NearestFirst(results) }

\* request 1 has assembled its context and asks for retrieval
RagInit ==
    /\ now = 2
    /\ sessions = [s \in SessionIds |->
                     [exists |-> TRUE, created_at |-> 0, last_accessed |-> 0]]
    /\ user_message \in [Requests -> UserTexts]
    /\ messages = <<Message(1, "s1", "user", user_message[1], 1)>>
    /\ chatStreamParams \in {SrcChatStreamParams, SpecChatStreamParams}
    /\ pc = [r \in Requests |-> IF r \in SoloRequests THEN "rag" ELSE "idle"]
    /\ session_id = [r \in Requests |-> "s1"]
    /\ use_rag = [r \in Requests |-> r \in SoloRequests]
    /\ Unstarted

RagNext == \E r \in SoloRequests : PrepareContext(r, QueryResults(DEFAULT_TOP_K))

RagSpec == RagInit /\ [][RagNext]_vars

\* ------------------------------------- two chat requests on one session
\* both requests have been called for session s1, without retrieval, with the
\* same text or with different ones; neither has run its first statement
PairTexts == {<<"q">>, <<"r">>}
PairBodies ==
    { <<Line("chunk", TRUE, <<"a">>), Line("complete", FALSE, NoText)>>,
      <<Line("complete", TRUE, <<"b">>), DoneLine>>,
      <<ErrorFrame>> }

PairInit ==
    /\ now = 1
    /\ sessions = [s \in SessionIds |->
                     IF s = "s1"
                     THEN [exists |-> TRUE, created_at |-> 0, last_accessed |-> 0]
                     ELSE NoSession]
    /\ messages = <<>>
    /\ chatStreamParams \in {SrcChatStreamParams, SpecChatStreamParams}
    /\ pc = [r \in Requests |-> "validate"]
    /\ session_id = [r \in Requests |-> "s1"]
    /\ user_message \in [Requests -> PairTexts]
    /\ use_rag = [r \in Requests |-> FALSE]
    /\ Unstarted

PairStep(r) ==
    \/ Validate(r)
    \/ PersistInbound(r)
    \/ AssembleContext(r)
    \/ EmitStart(r)
    \/ OpenStream(r, PairBodies)
    \/ ReceiveLine(r)
    \/ StreamEnds(r)
    \/ StreamFails(r)
    \/ PersistOutbound(r)

PairNext == \E r \in Requests : PairStep(r)

PairSpec == PairInit /\ [][PairNext]_vars

\* ------------------------------------------- retrieval by session
\* The collection after three uploads: process_file tags every chunk with the
\* session_id of its upload (documents d1 and d3 for s1, d2 for s2).
SessionTag == [d \in Documents |-> IF d = "d2" THEN "s2" ELSE "s1"]

\* (mutant) the query carries no where filter
WhereAny(sid) == Documents
\* where = {"session_id": session_id}
Where(sid) == { d \in Documents : SessionTag[d] = sid }

\* collection.query(n_results = top_k, where = ...): the matching chunks, at
\* most top_k of them and no fewer than there are, each once, nearest first;
\* the similarities are those of the query, which may be any
CollectionQuery(sid, top_k) ==
    { results \in QueryResults(top_k) :
        /\ \A i \in 1..Len(results) : results[i].doc \in Where(sid)
        /\ \A i, j \in 1..Len(results) : results[i].doc = results[j].doc => i = j
        /\ \/ Len(results) = top_k
           \/ Len(results) = Cardinality(Where(sid)) }

\* both sessions exist; one chat request, with top_k 1 or left to the default
TopKs == {1, DEFAULT_TOP_K}
TagInit ==
    /\ now = 1
    /\ sessions = [s \in SessionIds |->
                     [exists |-> TRUE, created_at |-> 0, last_accessed |-> 0]]
    /\ messages = <<>>
    /\ chatStreamParams \in {SrcChatStreamParams, SpecChatStreamParams}
    /\ pc = [r \in Requests |-> "idle"]
    /\ session_id = [r \in Requests |-> "s1"]
    /\ user_message = [r \in Requests |-> NoText]
    /\ use_rag = [r \in Requests |-> FALSE]
    /\ Unstarted

TagNext ==
    \E r \in SoloRequests :
        \/ Call(r)
        \/ Validate(r)
        \/ PersistInbound(r)
        \/ AssembleContext(r)
        \/ \E top_k \in TopKs : PrepareContext(r, CollectionQuery(session_id[r], top_k))
        \/ EmitStart(r)

TagSpec == TagInit /\ [][TagNext]_vars

\* ------------------------------------------ the lines of a response
\* a chat request whose backend answers with any lines, those chat_stream
\* skips included
ClientLines ==
    SkippedLines \cup {DoneLine, Line("chunk", TRUE, <<"a">>),
                       Line("complete", FALSE, NoText), OtherFrame}
ClientBodies == Bodies(ClientLines, MaxLines)

ClientNext == \E r \in SoloRequests : StreamStep(r, ClientBodies)

ClientSpec == Init /\ [][ClientNext]_vars

\* ------------------------------------------- a caller that keeps consuming
\* the run is never cancelled, and the event loop resumes a run that can go on
LiveLines ==
    {Line("chunk", TRUE, <<"a">>), Line("complete", FALSE, NoText), ErrorFrame, DoneLine}
LiveBodies == Bodies(LiveLines, MaxLines)

LiveStep(r) ==
    \/ Call(r)
    \/ Validate(r)
    \/ PersistInbound(r)
    \/ AssembleContext(r)
    \/ PrepareContext(r, IndexResults)
    \/ EmitStart(r)
    \/ OpenStream(r, LiveBodies)
    \/ ReceiveLine(r)
    \/ StreamEnds(r)
    \/ StreamFails(r)
    \/ PersistOutbound(r)

LiveNext == \E r \in SoloRequests : LiveStep(r)

LiveSpec == Init /\ [][LiveNext]_vars /\ WF_vars(LiveNext)

\* ------------------------------------------------------- derived notions
Last(s) == s[Len(s)]
Repeat(x, n) == [i \in 1..n |-> x]
EventTypes(r) == [i \in 1..Len(events[r]) |-> events[r][i].type]
TokenEvents(r) == SelectSeq(events[r], LAMBDA e : e.type = "token")
OfKind(ls, k) == SelectSeq(ls, LAMBDA l : l.kind = k)
AssistantMessages(r) == SelectSeq(messages, LAMBDA m : m.message_id = <<r, "assistant">>)
UserMessages(r) == SelectSeq(messages, LAMBDA m : m.message_id = <<r, "user">>)
TerminalPositions(r) ==
    { i \in 1..Len(events[r]) : events[r][i].type \in {"complete", "error"} }

RECURSIVE ConcatContent(_)
ConcatContent(es) ==
    IF es = <<>> THEN <<>> ELSE Head(es).content \o ConcatContent(Tail(es))

\* everything the backend answers to the request: delivered and yet to deliver
Answer(r) == lines[r] \o backend[r]

\* zero or more chunk frames, one complete frame, then the end of the response
\* (the body closes, with or without the [DONE] sentinel)
ChunksThenComplete(a) ==
    \E n \in 1..Len(a) :
        /\ a[n].kind = "complete"
        /\ \A i \in 1..(n - 1) : a[i].kind = "chunk"
        /\ \/ n = Len(a)
           \/ n + 1 = Len(a) /\ a[n + 1].kind = "done"

\* the user message of request r is in the store as it was given
InboundPersisted(r) ==
    /\ Len(UserMessages(r)) = 1
    /\ LET m == UserMessages(r)[1]
       IN  m.session_id = session_id[r] /\ m.role = "user" /\ m.content = user_message[r]

\* the text process_chat_stream holds after the frames ls, frame by frame
RECURSIVE TextAfter(_)
TextAfter(ls) ==
    IF ls = <<>> THEN <<>>
    ELSE LET before == TextAfter(SubSeq(ls, 1, Len(ls) - 1))
             l == Last(ls)
         IN  CASE l.kind = "chunk" -> before \o l.text
               [] l.kind = "complete" /\ l.has /\ l.text # <<>> /\ l.text # before -> l.text
               [] OTHER -> before

\* positions of the complete frames whose full_response is non-empty and
\* differs from the text accumulated up to them
Overriding(ls) ==
    { j \in 1..Len(ls) :
        /\ ls[j].kind = "complete" /\ ls[j].has /\ ls[j].text # <<>>
        /\ ls[j].text # TextAfter(SubSeq(ls, 1, j - 1)) }

Max(S) == CHOOSE x \in S : \A y \in S : y <= x

\* ---------------------------------------------------------------- claims

\* C1: for an existing session and a backend that answers with zero or more
\* chunk frames, one complete frame and the end of the response, a finished
\* run has emitted start, one token per chunk frame, and complete as the last
\* event, with no error event.
C1_SuccessfulRunEvents ==
    \A r \in Requests :
        ( /\ pc[r] = "done"
          /\ stream[r] \notin {"refused", "failed"}
          /\ ChunksThenComplete(Answer(r)) )
        => EventTypes(r) =
              <<"start">> \o Repeat("token", Len(OfKind(Answer(r), "chunk")))
                          \o <<"complete">>

C3_UnknownSessionState ==
    \A r \in Requests :
        raised[r] = "SessionNotFound"
        => /\ pc[r] = "raised"
           /\ events[r] = <<>>
           /\ UserMessages(r) = <<>>
           /\ AssistantMessages(r) = <<>>
           /\ sessions[session_id[r]] = NoSession
C3_UnknownSessionStep ==
    \A r \in Requests :
        (pc[r] = "validate" /\ ~sessions[session_id[r]].exists /\ pc'[r] # pc[r]
           /\ pc'[r] # "cancelled")
        => /\ raised'[r] = "SessionNotFound"
           /\ sessions' = sessions
           /\ messages' = messages
\* C3: on an unknown session id the run raises SessionNotFound with no event
\* emitted and no message of the request persisted, and the validation step
\* leaves both tables as they were.
C3_UnknownSession == [](C3_UnknownSessionState) /\ [][C3_UnknownSessionStep]_vars
C3_Witness == raised[1] = "SessionNotFound"

C6_ExactlyOneTerminal ==
    \A r \in Requests :
        (pc[r] \in {"done", "raised"} /\ raised[r] # "SessionNotFound")
        => Cardinality(TerminalPositions(r)) = 1

C8_InboundFirst ==
    \A r \in Requests :
        ( \/ pc[r] \in {"context", "rag", "start", "call", "loop", "persist_out", "done"}
          \/ context_messages[r] # <<>>
          \/ events[r] # <<>>
          \/ stream[r] # "none" )
        => InboundPersisted(r)
C8_MessagesKept ==
    /\ Len(messages') >= Len(messages)
    /\ \A i \in 1..Len(messages) : messages'[i] = messages[i]
\* C8: once the run is past the inbound persist step (context assembled, an
\* event emitted, the backend called, the run ended by an error, an exception
\* or a cancellation) its user message is in the store, and no step changes
\* or removes a stored message.
C8_InboundPersistedFirstAndKept == [](C8_InboundFirst) /\ [][C8_MessagesKept]_vars
C8_Witness ==
    /\ InboundPersisted(1)
    /\ pc[1] = "done"
    /\ Last(events[1]).type = "error"

\* C9: the i-th token event carries the text of the i-th chunk frame and the
\* count i, the events relayed from frames follow the order of the frames,
\* and a complete event carries the number of token events before it.
RelayedKind(e) ==
    CASE e.type = "token" -> "chunk"
      [] e.type = "complete" -> "complete"
      [] OTHER -> "error"
C11_CancelStep ==
    \A r \in Requests :
        (pc'[r] = "cancelled" /\ pc[r] \notin {"cancelled", "persist_out"})
        => /\ AssistantMessages(r)' = <<>>
           /\ InboundPersisted(r) => InboundPersisted(r)'
C11_AfterCancel ==
    \A r \in Requests :
        pc[r] = "cancelled"
        => /\ pc'[r] = "cancelled"
           /\ AssistantMessages(r)' = AssistantMessages(r)
           /\ UserMessages(r)' = UserMessages(r)
MostRecent(sid, n) ==
    { i \in 1..Len(messages) :
        /\ messages[i].session_id = sid
        /\ Cardinality({ j \in 1..Len(messages) :
                            /\ messages[j].session_id = sid
                            /\ messages[j].created_at > messages[i].created_at }) < n }
Chronological(S) ==
    [p \in 1..Cardinality(S) |->
        LET i == CHOOSE x \in S :
                    Cardinality({ y \in S : messages[y].created_at
                                              < messages[x].created_at }) = p - 1
        IN  [role |-> messages[i].role, content |-> messages[i].content]]
\* C12: the context window handed on by the context step is the most recent
\* MAX_CONTEXT_MESSAGES messages of the session, oldest first, at most that
\* many, with the system preamble in front if and only if none of them has
\* role system.
C12_ContextWindow ==
    \A r \in Requests :
        pc[r] \in {"rag", "start"}
        => LET window == Chronological(MostRecent(session_id[r], MAX_CONTEXT_MESSAGES))
               preamble == [role |-> "system", content |-> SystemPreamble]
           IN  /\ Len(window) <= MAX_CONTEXT_MESSAGES
               /\ context_messages[r] =
                     IF \E i \in 1..Len(window) : window[i].role = "system"
                     THEN window
                     ELSE <<preamble>> \o window
C12_Witness ==
    /\ pc[1] = "start"
    /\ Len(context_messages[1]) = MAX_CONTEXT_MESSAGES + 1
    /\ \E i \in 1..Len(messages) :
          messages[i].role = "system" /\ messages[i].session_id = "s1"
    /\ \E i \in 1..Len(messages) : messages[i].session_id = "s2"
    /\ Last(context_messages[1]).content = user_message[1]

\* positions of the index results that reach the threshold, and the p-th of them
Clearing(results) ==
    { i \in 1..Len(results) : results[i].score >= MIN_SIMILARITY_SCORE }
NthOf(S, p) == CHOOSE i \in S : Cardinality({ j \in S : j < i }) = p - 1
\* C13: prepare_context returns the index results whose similarity reaches
\* the threshold and no other, in the order the index gave them, with
\* non-increasing scores, passages and metadata of equal length and entry by
\* entry about the same chunk; results scored 0.9 and 0.5 yield the 0.9 passage.
C13_PreparedContext ==
    \A r \in Requests :
        LET docs == rag_context[r]
            meta == rag_metadata[r]
            clear == Clearing(index[r])
        IN  /\ Len(docs) = Len(meta)
            /\ Len(meta) = Cardinality(clear)
            /\ \A p \in 1..Len(meta) :
                  /\ meta[p] = index[r][NthOf(clear, p)]
                  /\ docs[p] = meta[p].doc
                  /\ meta[p].score >= MIN_SIMILARITY_SCORE
            /\ \A p \in 1..(Len(meta) - 1) : meta[p].score >= meta[p + 1].score
            /\ (Len(index[r]) = 2 /\ index[r][1].score = 9 /\ index[r][2].score = 5)
               => docs = <<index[r][1].doc>>
C13_Witness ==
    /\ pc[1] = "start"
    /\ Len(index[1]) = 3
    /\ index[1][1].score = 9
    /\ index[1][2].score = MIN_SIMILARITY_SCORE
    /\ index[1][3].score = 5
    /\ Len(rag_context[1]) = 2

\* the request asked for retrieval and prepare_context has returned
Retrieved(r) ==
    /\ use_rag[r]
    /\ pc[r] \notin {"idle", "validate", "persist_in", "context", "rag",
                     "req_validate", "req_persist_in", "req_context", "req_rag"}
    /\ raised[r] \notin {"SessionNotFound", "StoreError"}
Answered(r) ==
    /\ Answer(r) # <<>>
    /\ Answer(r)[1].kind = "response"
    /\ Answer(r)[1].has
    /\ stream[r] # "refused"
\* C20: process_chat_request raises SessionNotFound without side effects for
\* an absent session, has its user message stored before the backend is
\* called, ends a run whose backend answers with exactly one assistant message
\* stored and returned, and on a backend failure stores no assistant message
\* and keeps the user message.
C20_RequestContract ==
    \A r \in Requests :
        /\ raised[r] = "SessionNotFound"
           => /\ UserMessages(r) = <<>>
              /\ AssistantMessages(r) = <<>>
              /\ sessions[session_id[r]] = NoSession
        /\ (pc[r] \in {"req_call", "req_persist_out"} \/ stream[r] # "none")
           => InboundPersisted(r)
        /\ (pc[r] \in {"done", "raised"} /\ Answered(r) /\ raised[r] # "StoreError")
           => /\ Len(AssistantMessages(r)) = 1
              /\ ret[r].op = "process_chat_request"
              /\ ret[r].rows = AssistantMessages(r)
        /\ raised[r] \in {"HTTPError", "KeyError"}
           => /\ AssistantMessages(r) = <<>>
              /\ InboundPersisted(r)

\* positions of the rows a step has written: rows of messages' not in messages
Written ==
    { i \in 1..Len(messages') : \A j \in 1..Len(messages) : messages[j] # messages'[i] }
\* C15: every step that writes a message writes it for a session that exists
\* when it is written, also when the session is deleted or expired between
\* the validation step of a chat request and one of its persist steps.
C15_WritesReferenceSessions ==
    [][\A i \in Written : sessions[messages'[i].session_id].exists]_vars

\* the rows of session sid in a messages table
RowsOf(mtbl, sid) == SelectSeq(mtbl, LAMBDA m : m.session_id = sid)
\* the step in which delete_session returns: False for a session that was not
\* there, True with the session and its messages gone
C16_ReturnStep ==
    \A r \in Requests :
        (pc[r] \in {"idle", "del_session"} /\ pc'[r] = "done"
           /\ ret'[r].op = "delete_session")
        => LET sid == ret'[r].sid IN
           /\ ret'[r].found = (pc[r] = "del_session")
           /\ pc[r] = "idle" => ~sessions[sid].exists
           /\ ret'[r].found => ~sessions'[sid].exists /\ RowsOf(messages', sid) = <<>>
\* the step of delete_session that removes the messages removes the session
\* too: no state with the messages gone and the session in place is left
C16_DeletedTogether ==
    \A r \in Requests :
        (pc[r] = "del_messages" /\ pc'[r] # "del_messages"
           /\ RowsOf(messages, session_id[r]) # <<>>)
        => /\ RowsOf(messages', session_id[r]) = <<>>
           /\ ~sessions'[session_id[r]].exists
\* C16: delete_session removes the session and its messages as one unit and
\* returns True if and only if the session existed: when it returns True
\* neither the session nor a message of it remains, and no state in which the
\* messages are gone while the session exists is left for another operation
\* on the connection to see or commit.
C16_AtomicDelete == [][C16_ReturnStep /\ C16_DeletedTogether]_vars

\* the sessions a table holds with last_accessed older than a cutoff
Expired(stbl, cutoff) ==
    { s \in SessionIds : stbl[s].exists /\ stbl[s].last_accessed < cutoff }
\* first statement: the messages of the expired sessions go, in place and order
C17_MessagesStep ==
    \A r \in Requests :
        (pc[r] = "idle" /\ pc'[r] = "cleanup_sessions")
        => LET gone == Expired(sessions, now - SESSION_TIMEOUT_HOURS) IN
           /\ cutoff_time'[r] = now - SESSION_TIMEOUT_HOURS
           /\ messages' = SelectSeq(messages, LAMBDA m : m.session_id \notin gone)
           /\ sessions' = sessions
\* second statement and return: the expired sessions go and are counted
C17_SessionsStep ==
    \A r \in Requests :
        (pc[r] = "cleanup_sessions" /\ pc'[r] = "done")
        => LET gone == Expired(sessions, cutoff_time[r]) IN
           /\ \A s \in SessionIds :
                 sessions'[s] = IF s \in gone THEN NoSession ELSE sessions[s]
           /\ messages' = messages
           /\ \A s \in gone : RowsOf(messages', s) = <<>>
           /\ ret'[r].op = "cleanup_expired_sessions"
           /\ ret'[r].count = Cardinality(gone)
\* C17: cleanup_expired_sessions, run on its own, deletes exactly the sessions
\* last accessed before the cutoff and all of their messages, returns how
\* many sessions it deleted, and leaves every other session and message as
\* it was.
C17_ExpiresExactlyStale == [][C17_MessagesStep /\ C17_SessionsStep]_vars
C17_Witness ==
    /\ ret[1].op = "cleanup_expired_sessions"
    /\ ret[1].count = 1
    /\ \E s \in SessionIds :
          /\ sessions[s].exists
          /\ sessions[s].last_accessed = cutoff_time[1]
          /\ RowsOf(messages, s) # <<>>

\* C18: get_session on an existing id returns the session's record and sets
\* its last_accessed to the clock's reading, leaving its created_at, every
\* other session and every message as they were; on an absent id it returns
\* None, raises nothing and changes nothing.
C18_GetSessionStep ==
    \A r \in Requests :
        (pc[r] = "idle" /\ pc'[r] = "done" /\ ret'[r].op = "get_session")
        => LET sid == ret'[r].sid IN
           /\ messages' = messages
           /\ raised'[r] = "none"
           /\ \A s \in SessionIds \ {sid} : sessions'[s] = sessions[s]
           /\ IF sessions[sid].exists
              THEN /\ ret'[r].found
                   /\ Len(ret'[r].rows) = 1
                   /\ ret'[r].rows[1].session_id = sid
                   /\ ret'[r].rows[1].created_at = sessions[sid].created_at
                   /\ ret'[r].rows[1].last_accessed >= now
                   /\ sessions'[sid] = [sessions[sid] EXCEPT !.last_accessed = now]
              ELSE /\ ~ret'[r].found
                   /\ ret'[r].rows = <<>>
                   /\ sessions' = sessions
                   /\ now' = now
C18_GetSessionFrame == [][C18_GetSessionStep]_vars
C18_Witness ==
    /\ ret[1].op = "get_session"
    /\ ret[1].found
    /\ sessions[ret[1].sid].last_accessed = Start
    /\ sessions[ret[1].sid].created_at = 0
    /\ \E s \in SessionIds \ {ret[1].sid} : sessions[s].exists
    /\ messages # <<>>

\* C19: get_session_messages returns None for a session that does not exist,
\* and else the session's messages newest first: all of them without a limit,
\* the newest limit of them (so at most limit) with a limit, an empty list
\* when the session has no message.
C19_HistoryStep ==
    \A r \in Requests :
        (pc[r] = "idle" /\ pc'[r] = "done" /\ ret'[r].op = "get_session_messages")
        => LET sid == ret'[r].sid
               limit == ret'[r].limit
               rows == ret'[r].rows
               own == MostRecent(sid, Len(messages) + 1)
               newest == IF limit.given THEN MostRecent(sid, limit.n) ELSE own
           IN  /\ ret'[r].found = sessions[sid].exists
               /\ ~sessions[sid].exists => rows = <<>>
               /\ sessions[sid].exists
                  => /\ limit.given => Len(rows) <= limit.n
                     /\ { rows[i].message_id : i \in 1..Len(rows) }
                           = { messages[i].message_id : i \in newest }
                     /\ Len(rows) = Cardinality(newest)
                     /\ \A i \in 1..(Len(rows) - 1) :
                           rows[i].created_at >= rows[i + 1].created_at
               /\ UNCHANGED <<sessions, messages>>
C19_History == [][C19_HistoryStep]_vars

C29_OwnMessageLast ==
    \A r \in Requests :
        pc[r] \in {"start", "call", "loop", "persist_out", "done"}
        => /\ context_messages[r] # <<>>
           /\ Last(context_messages[r]) =
                 [role |-> "user", content |-> user_message[r]]

\* C30: when cleanup_expired_sessions returns, every session whose messages
\* its first DELETE removed is gone too, so a session that is still there has
\* lost no message, also when get_session refreshes the session between the
\* two DELETE statements.
C30_SurvivorsKeepMessages ==
    [][\A r \in Requests :
          (pc[r] = "cleanup_sessions" /\ pc'[r] = "done")
          => \A s \in purged[r] : ~sessions'[s].exists]_vars

\* C23: every passage prepare_context returns to a chat request comes from a
\* chunk tagged with the request's session; a chunk ingested for another
\* session is never returned, whatever its similarity.
C23_OwnSessionOnly ==
    \A r \in Requests :
        /\ Len(rag_context[r]) = Len(rag_metadata[r])
        /\ \A p \in 1..Len(rag_metadata[r]) :
              /\ SessionTag[rag_metadata[r][p].doc] = session_id[r]
              /\ rag_context[r][p] = rag_metadata[r][p].doc
C23_Witness ==
    /\ pc[1] = "start"
    /\ session_id[1] = "s2"
    /\ Len(rag_context[1]) = 1
    /\ rag_metadata[1][1].score = MIN_SIMILARITY_SCORE

\* the lines of a response up to its first [DONE] line, the sentinel left out
BeforeSentinel(a) ==
    LET dones == { i \in 1..Len(a) : a[i].kind = "done" }
    IN  IF dones = {} THEN a
        ELSE SubSeq(a, 1, (CHOOSE i \in dones : \A j \in dones : i <= j) - 1)
\* the frames among lines: "data: " lines whose content parses as JSON
WellFormed(a) ==
    SelectSeq(a, LAMBDA l : l.kind \notin {"blank", "nondata", "malformed", "done"})
IsPrefix(s, t) == Len(s) <= Len(t) /\ \A i \in 1..Len(s) : s[i] = t[i]
C24_AppendOnly == IsPrefix(messages, messages')
\* a step is the DELETE FROM messages of delete_session or of
\* cleanup_expired_sessions: it removes the messages of the session being
\* deleted, or of the sessions expired at the cutoff, all of them and no
\* other, and leaves the operation at the statement that deletes these sessions
C24_BulkDelete ==
    \E r \in Requests :
        \/ /\ pc[r] = "del_messages" /\ pc'[r] = "del_session"
           /\ messages' = SelectSeq(messages, LAMBDA m : m.session_id # session_id[r])
        \/ /\ pc[r] = "idle" /\ pc'[r] = "cleanup_sessions"
           /\ messages' = SelectSeq(messages,
                  LAMBDA m : m.session_id \notin Expired(sessions, cutoff_time'[r]))
C25_EndsWithSentinel ==
    \A r \in Requests :
        pc[r] \in {"done", "raised"}
        => GenerateStream(events[r], pc[r], raised[r]) =
              [i \in 1..Len(events[r]) |-> DataLine(events[r][i])] \o <<DoneSentinel>>

StoreFailed(r) ==
    \E i \in 1..Len(events[r]) : events[r][i] = ErrorEvent("StoreError")
CompletedWithText(r) ==
    /\ \E i \in 1..Len(events[r]) : events[r][i].type = "complete"
    /\ full_response[r] # <<>>
====
